---- MODULE Spec2Model ----
(***************************************************************************)
(* Solar-windowed animation scheduling and the animation queue of the      *)
(* nps-webcam-animation-generator worker.                                  *)
(*                                                                         *)
(* Time is counted in milliseconds from Epoch0 = 2025-09-20T00:00:00Z      *)
(* (Date.getTime() - Epoch0); start_time / end_time / image timestamps are *)
(* Unix seconds from the same origin.  A string is a sequence of tokens    *)
(* (single characters, or a literal word such as a job type), so that      *)
(* formatting and regular-expression tests are computed, not assumed.      *)
(* The worker runs in UTC (Cloudflare Workers), so Date.setMinutes and     *)
(* Date.setHours act on UTC fields.                                        *)
(***************************************************************************)
EXTENDS Integers, Sequences, FiniteSets, TLC

VARIABLES webcams, images, queue, nextId, now, faults, completions, lastOp,
          lastDesample, retention, capture, tick, runs, calls, toCreate

vars == <<webcams, images, queue, nextId, now, faults, completions, lastOp, lastDesample,
          retention, capture, tick, runs, calls, toCreate>>

----------------------------------------------------------------------------
(* Bounds of the model *)

\* ids the queue table ever assigns (two scheduling runs of one located webcam)
MaxEntries == 8
\* webcam lookups that return null and candidates whose processing throws,
\* in total
MaxFaults == 1
\* successful calls of markAnimationCompleted
MaxCompletions == 1

----------------------------------------------------------------------------
(* Units and JavaScript number helpers *)

MsPerSecond == 1000
MsPerMinute == 60000
MsPerHour == 3600000
MsPerDay == 86400000
EpochDayOfMonth == 20

\* NaN of a JavaScript number (solar event that does not occur, Invalid Date)
NaN == -2000000000
isNaN(x) == x = NaN

\* null of a numeric column (processed_at)
NoTime == -1
\* null of a text column (error_message)
NoMessage == <<>>
\* null of webcam.latLon / webcam.timezone
NULL == "null"

Sub(a, b) == IF isNaN(a) \/ isNaN(b) THEN NaN ELSE a - b
Add(a, b) == IF isNaN(a) \/ isNaN(b) THEN NaN ELSE a + b
\* 0.25 * d ; every duration of SolarTable is a multiple of 4 ms
Quarter(d) == IF isNaN(d) THEN NaN ELSE d \div 4

Min(a, b) == IF a <= b THEN a ELSE b
Abs(x) == IF x < 0 THEN 0 - x ELSE x

Digits == <<"0", "1", "2", "3", "4", "5", "6", "7", "8", "9">>
DigitChar(n) == Digits[n + 1]
IsDigit(c) == \E i \in 1..10 : Digits[i] = c
DigitValue(c) == (CHOOSE i \in 1..10 : Digits[i] = c) - 1
\* String(n).padStart(2, '0') for 0 <= n <= 99
Pad2(n) == <<DigitChar(n \div 10), DigitChar(n % 10)>>
\* String(n) for 0 <= n <= 99
NumberString(n) == IF n < 10 THEN <<DigitChar(n)>> ELSE Pad2(n)

----------------------------------------------------------------------------
(* Calendar of the model: the days 2025-09-20 .. 2025-09-29 *)

\* local wall-clock fields of the instant ms in a zone of the given UTC offset
LocalDayIndex(ms, offsetHours) == (ms + offsetHours * MsPerHour) \div MsPerDay
LocalHour(ms, offsetHours) == ((ms + offsetHours * MsPerHour) % MsPerDay) \div MsPerHour
DayOfMonth(dayIndex) == EpochDayOfMonth + dayIndex

\* luxon toFormat('yyyyMMdd')
FormatYYYYMMDD(dayIndex) == <<"2", "0", "2", "5", "0", "9">> \o Pad2(DayOfMonth(dayIndex))
\* `${year}-${month}-${day}` with padStart(2, '0')
FormatDateKey(dayIndex) == <<"2", "0", "2", "5", "-", "0", "9", "-">> \o Pad2(DayOfMonth(dayIndex))

\* IANA zones of the model as UTC offsets in hours (September: MDT, JST)
ZoneOffset(tz) ==
    CASE tz = "America/Denver" -> 0 - 6
      [] tz = "Asia/Tokyo" -> 9
      [] OTHER -> 0

----------------------------------------------------------------------------
(* Webcams table and the solar calculator *)

\* the webcams table, in name order (getEnabledWebcams orders by name): one
\* located webcam among webcams without location, without timezone, with a
\* location where no solar event occurs, with an unparseable location, and a
\* disabled one
Webcam(id, name, enabled, latLon, timezone) ==
    [id |-> id, name |-> name, enabled |-> enabled, latLon |-> latLon,
     timezone |-> timezone, nationalPark |-> "Denali"]

WebcamsTable ==
    << Webcam(2, "Aurora", TRUE, NULL, "America/Denver"),
       Webcam(1, "Borealis", TRUE, "LongTwilight", "America/Denver"),
       Webcam(3, "Cirrus", TRUE, "LongTwilight", NULL),
       Webcam(4, "Dusk", TRUE, "NoEvents", "America/Denver"),
       Webcam(5, "Ember", TRUE, "invalid", "America/Denver"),
       Webcam(6, "Frost", FALSE, "LongTwilight", "America/Denver") >>

\* SELECT ... FROM webcams WHERE enabled ORDER BY name (the table is kept
\* in name order)
getEnabledWebcams == SelectSeq(webcams, LAMBDA w : w.enabled)

\* getWebcamById: the row or NULL
HasWebcam(webcamId) == \E i \in 1..Len(webcams) : webcams[i].id = webcamId
getWebcamById(webcamId) ==
    IF HasWebcam(webcamId)
    THEN webcams[CHOOSE i \in 1..Len(webcams) : webcams[i].id = webcamId]
    ELSE NULL

\* Solar events of one UTC day, as offsets in ms from the start of that day
\* (UTC); NaN for an event that does not occur that day.
\* "LongTwilight": a short high-latitude day with long twilight
\*   firstLight 12:40, sunrise 14:24, sunset 14:48, lastLight 14:56
\* "LateTwilight": the same day eight hours later (20:40 .. 22:56)
\* "OnTheHour": firstLight 12:20, sunrise 13:40, sunset 14:30, lastLight 15:10,
\*   so that lightStart is 12:00:00.000 and sunriseEnd 14:00:00.000
\* "NoSunset": dawn and sunrise occur, the sun does not set that day
\* "NoDawn": no dawn and no sunrise that day, sunset and dusk occur
\* "NoEvents": no event occurs that day (polar day / night), all NaN
SolarTable(latLon) ==
    CASE latLon = "LongTwilight" ->
            [firstLight |-> 12 * MsPerHour + 40 * MsPerMinute,
             sunrise    |-> 14 * MsPerHour + 24 * MsPerMinute,
             sunset     |-> 14 * MsPerHour + 48 * MsPerMinute,
             lastLight  |-> 14 * MsPerHour + 56 * MsPerMinute]
      [] latLon = "LateTwilight" ->
            [firstLight |-> 20 * MsPerHour + 40 * MsPerMinute,
             sunrise    |-> 22 * MsPerHour + 24 * MsPerMinute,
             sunset     |-> 22 * MsPerHour + 48 * MsPerMinute,
             lastLight  |-> 22 * MsPerHour + 56 * MsPerMinute]
      [] latLon = "OnTheHour" ->
            [firstLight |-> 12 * MsPerHour + 20 * MsPerMinute,
             sunrise    |-> 13 * MsPerHour + 40 * MsPerMinute,
             sunset     |-> 14 * MsPerHour + 30 * MsPerMinute,
             lastLight  |-> 15 * MsPerHour + 10 * MsPerMinute]
      [] latLon = "NoSunset" ->
            [firstLight |-> 12 * MsPerHour + 40 * MsPerMinute,
             sunrise    |-> 14 * MsPerHour + 24 * MsPerMinute,
             sunset     |-> NaN,
             lastLight  |-> NaN]
      [] latLon = "NoDawn" ->
            [firstLight |-> NaN,
             sunrise    |-> NaN,
             sunset     |-> 14 * MsPerHour + 48 * MsPerMinute,
             lastLight  |-> 14 * MsPerHour + 56 * MsPerMinute]
      [] OTHER ->
            [firstLight |-> NaN, sunrise |-> NaN, sunset |-> NaN, lastLight |-> NaN]

parseableLatLon(latLon) ==
    latLon \in {"LongTwilight", "LateTwilight", "OnTheHour", "NoSunset", "NoDawn", "NoEvents"}

\* calculateWebcamSolarTimes(latLon, timestampMs): NULL when the location
\* cannot be parsed, else the events of the UTC day containing timestampMs
calculateWebcamSolarTimes(latLon, timestampMs) ==
    IF ~parseableLatLon(latLon) THEN NULL
    ELSE LET dayStart == timestampMs - (timestampMs % MsPerDay)
             t == SolarTable(latLon)
         IN [firstLight |-> Add(dayStart, t.firstLight),
             sunrise    |-> Add(dayStart, t.sunrise),
             sunset     |-> Add(dayStart, t.sunset),
             lastLight  |-> Add(dayStart, t.lastLight)]

----------------------------------------------------------------------------
(* createAnimationEntry *)

AnimationTypes == {"hourly", "sunrise", "sunset", "full_day"}

\* getLocalDateKey(utcDate, timezone): the YYYY-MM-DD of the instant in the zone
getLocalDateKey(utcMs, timezone) ==
    FormatDateKey(LocalDayIndex(utcMs, ZoneOffset(timezone)))

\* generateAnimationStorageKey as createAnimationEntry calls it: the fourth
\* argument is scheduledTime.getTime() and no hour string is passed
generateAnimationStorageKey(nationalPark, webcamName, animationType, dateStamp) ==
    IF animationType = "hourly"
    THEN <<"gifs/", nationalPark, "/", webcamName, "/", animationType, "/", dateStamp, "_", "undefined", ".mp4">>
    ELSE <<"gifs/", nationalPark, "/", webcamName, "/", animationType, "/", dateStamp, ".mp4">>

\* startTime / endTime in Unix seconds, scheduledTime in ms
\* the reference id computed from the start time without setZone (in UTC)
referenceIdUtc(webcam, animationType, startTime) ==
    LET dateStr == FormatYYYYMMDD(LocalDayIndex(startTime * MsPerSecond, 0))
        hourStr == Pad2(LocalHour(startTime * MsPerSecond, 0))
    IN IF animationType = "hourly"
       THEN NumberString(webcam.id) \o <<"_", animationType, "_">> \o dateStr \o <<"_">> \o hourStr
       ELSE NumberString(webcam.id) \o <<"_", animationType, "_">> \o dateStr

\* createAnimationEntry: startDate, dateStr, hourStr and referenceId
referenceId(webcam, animationType, startTime) ==
    LET zone == ZoneOffset(webcam.timezone)
        dateStr == FormatYYYYMMDD(LocalDayIndex(startTime * MsPerSecond, zone))
        hourStr == Pad2(LocalHour(startTime * MsPerSecond, zone))
    IN IF animationType = "hourly"
       THEN NumberString(webcam.id) \o <<"_", animationType, "_">> \o dateStr \o <<"_">> \o hourStr
       ELSE NumberString(webcam.id) \o <<"_", animationType, "_">> \o dateStr

createAnimationEntry(webcam, animationType, scheduledTime, startTime, endTime) ==
    LET
        storageKey == generateAnimationStorageKey(
                          IF webcam.nationalPark = NULL THEN "unknown" ELSE webcam.nationalPark,
                          webcam.name, animationType, scheduledTime)
        dateKey == getLocalDateKey(scheduledTime,
                          IF webcam.timezone = NULL THEN "America/Denver" ELSE webcam.timezone)
    IN [id |-> 0,
        webcam_id |-> webcam.id,
        reference_id |-> referenceId(webcam, animationType, startTime),
        gif_type |-> animationType,
        scheduled_time |-> scheduledTime,
        date_key |-> dateKey,
        image_list |-> <<>>,
        status |-> "waiting_for_images",
        processed_at |-> NoTime,
        error_message |-> NoMessage,
        start_time |-> startTime,
        end_time |-> endTime,
        gif_storage_key |-> storageKey]

----------------------------------------------------------------------------
(* createTodaysAnimations *)

\* /^\d{4}-\d{2}-\d{2}$/.test(dateString)
\* a test of the length only
dateRegexTestLengthOnly(s) == Len(s) = 10

dateRegexTest(s) ==
    /\ Len(s) = 10
    /\ \A i \in {1, 2, 3, 4, 6, 7, 9, 10} : IsDigit(s[i])
    /\ s[5] = "-"
    /\ s[8] = "-"

\* new Date(`${dateString}T03:00:00Z`).getTime() for a date of September 2025
anchorOf(dateString) ==
    (DigitValue(dateString[9]) * 10 + DigitValue(dateString[10]) - EpochDayOfMonth) * MsPerDay
        + 3 * MsPerHour

\* the webcams createTodaysAnimations passes over: no location or no timezone
\* the skip without the check of the timezone
skipWebcamLatLonOnly(webcam) == webcam.latLon = NULL

skipWebcam(webcam) == webcam.latLon = NULL \/ webcam.timezone = NULL

\* Date.setMinutes(0, 0, 0)
floorToHour(ms) == ms - (ms % MsPerHour)

\* the loop with every hourly job scheduled five minutes after its hour begins
RECURSIVE hourlyAnimationsScheduledEarly(_, _, _)
hourlyAnimationsScheduledEarly(webcam, currentHour, lightEnd) ==
    IF ~(currentHour < lightEnd) THEN <<>>
    ELSE LET nextHour == currentHour + MsPerHour
             rest == hourlyAnimationsScheduledEarly(webcam, nextHour, lightEnd)
         IN IF nextHour <= lightEnd
            THEN <<createAnimationEntry(webcam, "hourly", currentHour + 5 * MsPerMinute,
                                        currentHour \div MsPerSecond,
                                        nextHour \div MsPerSecond)>> \o rest
            ELSE rest

\* the while loop over currentHour
RECURSIVE hourlyAnimations(_, _, _)
hourlyAnimations(webcam, currentHour, lightEnd) ==
    IF ~(currentHour < lightEnd) THEN <<>>
    ELSE LET nextHour == currentHour + MsPerHour
             rest == hourlyAnimations(webcam, nextHour, lightEnd)
         IN IF nextHour <= lightEnd
            THEN <<createAnimationEntry(webcam, "hourly", nextHour + 5 * MsPerMinute,
                                        currentHour \div MsPerSecond,
                                        nextHour \div MsPerSecond)>> \o rest
            ELSE rest

\* body of the for loop for one webcam that is not skipped
animationsForWebcam(webcam, dateString) ==
    IF ~parseableLatLon(webcam.latLon) THEN <<>>
    ELSE
    LET solarTimes == calculateWebcamSolarTimes(webcam.latLon, anchorOf(dateString))
        sunriseDuration == Sub(solarTimes.sunrise, solarTimes.firstLight)
        sunsetDuration == Sub(solarTimes.lastLight, solarTimes.sunset)
        lightStart == Sub(solarTimes.firstLight, Quarter(sunriseDuration))
        sunriseEnd == Add(solarTimes.sunrise, Quarter(sunriseDuration))
        sunsetStart == Sub(solarTimes.sunset, Quarter(sunsetDuration))
        lightEnd == Add(solarTimes.lastLight, Quarter(sunsetDuration))
        sunriseAnimation ==
            IF ~isNaN(lightStart) /\ ~isNaN(lightEnd)
            THEN <<createAnimationEntry(webcam, "sunrise", Add(sunriseEnd, MsPerMinute),
                                        lightStart \div MsPerSecond,
                                        sunriseEnd \div MsPerSecond)>>
            ELSE <<>>
        sunsetAnimation ==
            IF ~isNaN(sunsetStart) /\ ~isNaN(lightEnd)
            THEN <<createAnimationEntry(webcam, "sunset", lightEnd + MsPerMinute,
                                        sunsetStart \div MsPerSecond,
                                        lightEnd \div MsPerSecond)>>
            ELSE <<>>
        fullDayAnimation ==
            IF ~isNaN(lightStart) /\ ~isNaN(lightEnd)
            THEN <<createAnimationEntry(webcam, "full_day", lightEnd + MsPerMinute,
                                        lightStart \div MsPerSecond,
                                        lightEnd \div MsPerSecond)>>
            ELSE <<>>
        lightStartHour ==
            IF floorToHour(lightStart) < solarTimes.firstLight
            THEN floorToHour(lightStart) + MsPerHour
            ELSE floorToHour(lightStart)
        hourly ==
            IF ~isNaN(lightStart) /\ ~isNaN(lightEnd)
            THEN hourlyAnimations(webcam, lightStartHour, lightEnd)
            ELSE <<>>
    IN sunriseAnimation \o sunsetAnimation \o fullDayAnimation \o hourly

\* the for loop over the enabled webcams: animationsToCreate
RECURSIVE animationsToCreate(_, _)
animationsToCreate(ws, dateString) ==
    IF ws = <<>> THEN <<>>
    ELSE IF skipWebcam(Head(ws))
         THEN animationsToCreate(Tail(ws), dateString)
         ELSE animationsForWebcam(Head(ws), dateString)
                  \o animationsToCreate(Tail(ws), dateString)

\* AnimationQueueRepository.addAnimationsToQueue: one INSERT per animation,
\* the table assigns the autoincrement id; no column is unique but id
RECURSIVE addAnimationsToQueue(_, _, _)
addAnimationsToQueue(q, animations, id) ==
    IF animations = <<>> THEN q
    ELSE addAnimationsToQueue(Append(q, [Head(animations) EXCEPT !.id = id]),
                              Tail(animations), id + 1)

----------------------------------------------------------------------------
(* Image keys, hasMinimumImages and desampleImageKeys *)

\* null result of extractTimestampFromImageKey
NoTimestamp == -1

\* `images/romo/${webcam.name}/${unixTimestamp}${ext}` ; ext is guessExt's
\* result, "" for a content type it does not know
imageKey(webcamName, unixTimestamp, ext) ==
    <<"images/romo/", webcamName, "/", unixTimestamp, ext>>

\* filename.match(/^(\d+)\.[a-zA-Z]+$/): the stem when an extension follows it
extractTimestampFromImageKey(key) ==
    IF key[5] \in {".jpg", ".png", ".gif", ".webp"} THEN key[4] ELSE NoTimestamp

\* the table with the minimum of sunset lowered to 2
minimumsLowered(animationType) ==
    CASE animationType = "hourly" -> 5
      [] animationType = "sunrise" -> 3
      [] animationType = "sunset" -> 2
      [] animationType = "full_day" -> 10
      [] animationType = "on_demand" -> 3

minimums(animationType) ==
    CASE animationType = "hourly" -> 5
      [] animationType = "sunrise" -> 3
      [] animationType = "sunset" -> 3
      [] animationType = "full_day" -> 10
      [] animationType = "on_demand" -> 3

\* hasMinimumImages with the comparison made strict
hasMinimumImagesStrict(animationType, imageCount) == imageCount > minimums(animationType)

hasMinimumImages(animationType, imageCount) == imageCount >= minimums(animationType)

\* a copy of an array ([...array]), held as a sequence
slice(seq) == SubSeq(seq, 1, Len(seq))

\* the order of the input, unsorted
inputOrder(keys) == slice([i \in 1..Len(keys) |-> i])

\* indices of keys in stable ascending order of keys (Array.prototype.sort
\* with a numeric comparator, ORDER BY ... ASC): the element at index i goes
\* to the place after every smaller key and every equal key before it
sortedOrder(keys) ==
    LET n == Len(keys)
        place == slice([i \in 1..n |->
                     1 + Cardinality({j \in 1..n : keys[j] < keys[i]
                                                   \/ (keys[j] = keys[i] /\ j < i)})])
    IN slice([p \in 1..n |-> CHOOSE i \in 1..n : place[i] = p])

\* the scan for the image closest to targetTimestamp, the first such image
\* when several are equally close.  Timestamps and target are compared after
\* multiplying by scale = totalImages - 1, which keeps interval * i exact:
\* scaledTarget = firstTimestamp * scale + timeSpan * i
closestImage(imgs, scaledTarget, scale) ==
    LET difference(k) == Abs(imgs[k].timestamp * scale - scaledTarget)
        differences == {difference(k) : k \in 1..Len(imgs)}
        minDifference == CHOOSE d \in differences : \A e \in differences : d <= e
    IN CHOOSE k \in 1..Len(imgs) :
           /\ difference(k) = minDifference
           /\ \A j \in 1..(k - 1) : difference(j) # minDifference

includes(seq, x) == \E j \in 1..Len(seq) : seq[j] = x

\* candidates[lo..hi] without the keys that occur earlier in candidates
RECURSIVE firstOccurrences(_, _, _)
firstOccurrences(candidates, lo, hi) ==
    IF lo > hi THEN <<>>
    ELSE IF lo = hi
    THEN IF \E j \in 1..(lo - 1) : candidates[j] = candidates[lo]
         THEN <<>>
         ELSE <<candidates[lo]>>
    ELSE LET mid == (lo + hi) \div 2
         IN firstOccurrences(candidates, lo, mid) \o firstOccurrences(candidates, mid + 1, hi)

\* selectedImages after the loop `for (let i = 1; i < totalImages - 1; i++)`:
\* the first image, then for each i the closest image unless its key is
\* already selected
selectAtIntervals(imgs, totalImages) ==
    LET scale == totalImages - 1
        firstTimestamp == imgs[1].timestamp
        timeSpan == imgs[Len(imgs)].timestamp - firstTimestamp
        closestKey(i) == imgs[closestImage(imgs, firstTimestamp * scale + timeSpan * i, scale)].key
        candidates == <<imgs[1].key>> \o [i \in 1..(totalImages - 2) |-> closestKey(i)]
    IN firstOccurrences(candidates, 1, Len(candidates))

desampleImageKeys(sourceImages, totalImages) ==
    IF Len(sourceImages) = 0 \/ totalImages <= 0 THEN <<>>
    ELSE IF Len(sourceImages) <= totalImages THEN slice(sourceImages)
    ELSE
    LET parsed == SelectSeq(sourceImages,
                            LAMBDA key : extractTimestampFromImageKey(key) # NoTimestamp)
        n == Len(parsed)
        unsorted == slice([j \in 1..n |->
                        [timestamp |-> extractTimestampFromImageKey(parsed[j]), key |-> parsed[j]]])
        order == sortedOrder([j \in 1..n |-> unsorted[j].timestamp])
        imagesWithTimestamps == slice([j \in 1..n |-> unsorted[order[j]]])
    IN IF n = 0 THEN <<>>
       ELSE IF n <= totalImages THEN slice([j \in 1..n |-> imagesWithTimestamps[j].key])
       ELSE IF imagesWithTimestamps[n].timestamp - imagesWithTimestamps[1].timestamp = 0
            THEN slice([j \in 1..totalImages |-> imagesWithTimestamps[j].key])
       ELSE IF totalImages = 1 THEN <<imagesWithTimestamps[1].key>>
       ELSE IF totalImages = 2
            THEN <<imagesWithTimestamps[1].key, imagesWithTimestamps[n].key>>
       ELSE LET selectedImages == selectAtIntervals(imagesWithTimestamps, totalImages)
                lastImage == imagesWithTimestamps[n].key
            IN IF includes(selectedImages, lastImage)
               THEN selectedImages
               ELSE Append(selectedImages, lastImage)

----------------------------------------------------------------------------
(* AnimationQueueRepository and ImageRepository *)

AnimationStatus == {"waiting_for_images", "pending", "processing", "completed", "failed"}

HasEntry(q, id) == \E i \in 1..Len(q) : q[i].id = id
EntryOf(q, id) == q[CHOOSE i \in 1..Len(q) : q[i].id = id]

\* the query without the condition on scheduledTime
getWaitingAnimationsAnyTime(q, currentTime) ==
    LET rows == SelectSeq(q, LAMBDA e : e.status = "waiting_for_images")
        order == sortedOrder([j \in 1..Len(rows) |-> rows[j].scheduled_time])
    IN slice([j \in 1..Len(rows) |-> rows[order[j]]])

\* getWaitingAnimations(currentTime): WHERE status = 'waiting_for_images' AND
\* scheduled_time <= currentTime ORDER BY scheduled_time ASC
getWaitingAnimations(q, currentTime) ==
    LET rows == SelectSeq(q, LAMBDA e : e.status = "waiting_for_images"
                                        /\ e.scheduled_time <= currentTime)
        order == sortedOrder([j \in 1..Len(rows) |-> rows[j].scheduled_time])
    IN slice([j \in 1..Len(rows) |-> rows[order[j]]])

\* the query without ORDER BY: the first ten pending rows in table order
getPendingAnimationsUnordered(q) ==
    LET rows == SelectSeq(q, LAMBDA e : e.status = "pending")
    IN SubSeq(rows, 1, Min(10, Len(rows)))

\* getPendingAnimations(): WHERE status = 'pending' ORDER BY scheduled_time ASC
\* LIMIT 10
getPendingAnimations(q) ==
    LET rows == SelectSeq(q, LAMBDA e : e.status = "pending")
        ordered == SortSeq(rows, LAMBDA a, b : a.scheduled_time < b.scheduled_time)
    IN SubSeq(ordered, 1, Min(10, Len(ordered)))

\* the update stamping processed_at whatever the status
updateAnimationWithImagesStamped(q, id, status, imageKeys, errorMessage) ==
    [i \in 1..Len(q) |->
        IF q[i].id = id
        THEN [q[i] EXCEPT !.status = status,
                          !.image_list = imageKeys,
                          !.processed_at = now,
                          !.error_message = errorMessage]
        ELSE q[i]]

\* updateAnimationWithImages: UPDATE ... SET status, image_list, processed_at,
\* error_message WHERE id = id
updateAnimationWithImages(q, id, status, imageKeys, errorMessage) ==
    LET processedAt == IF status = "completed" \/ status = "failed" THEN now ELSE NoTime
    IN [i \in 1..Len(q) |->
          IF q[i].id = id
          THEN [q[i] EXCEPT !.status = status,
                            !.image_list = imageKeys,
                            !.processed_at = processedAt,
                            !.error_message = errorMessage]
          ELSE q[i]]

\* ImageRepository.getImagesForTimeRange(webcam, start, end) followed by
\* images.map(x => x.objectName): the object names of the webcam's images with
\* start <= time_stamp <= end, ORDER BY time_stamp ASC
getImagesForTimeRange(webcam, startTime, endTime) ==
    LET rows == SelectSeq(images, LAMBDA r : r.webcamId = webcam.id
                                             /\ startTime <= r.timeStamp
                                             /\ r.timeStamp <= endTime)
        ordered == SortSeq(rows, LAMBDA a, b : a.timeStamp < b.timeStamp)
    IN slice([j \in 1..Len(ordered) |-> ordered[j].objectName])

----------------------------------------------------------------------------
(* prepareAnimationsForPendingQueue *)

FrameRate == 15
FullDaySeconds == 10
HourlySeconds == 4
SunSeconds == 8

\* the switch on animation.gifType: 'full_day' assigns and breaks; 'hourly'
\* assigns and falls through, 'sunrise' / 'sunset' compute a minimum and drop
\* it, and all three end in the default branch
totalImagesFor(gifType, imageCount) ==
    CASE gifType = "full_day" -> Min(FullDaySeconds * FrameRate, imageCount)
      [] OTHER -> imageCount

\* a pass of the loop none of whose updates reaches the table
processAnimationUnwritten(q, animation, webcamFound, fetchThrows) == q

\* body of the for loop for one animation; webcamFound tells whether
\* getWebcamById returned a row, fetchThrows whether a call inside the try block
\* (to the repository behind IRepository) threw
processAnimation(q, animation, webcamFound, fetchThrows) ==
    IF ~webcamFound
    THEN updateAnimationWithImages(q, animation.id, "failed", <<>>, <<"Webcam not found">>)
    ELSE IF animation.start_time = 0 \/ animation.end_time = 0
    THEN updateAnimationWithImages(q, animation.id, "failed", <<>>,
             <<"Processing error: ", "start or end time not defined">>)
    ELSE IF fetchThrows
    THEN updateAnimationWithImages(q, animation.id, "failed", <<>>,
             <<"Processing error: ", "D1_ERROR">>)
    ELSE
    LET imageKeys == getImagesForTimeRange(getWebcamById(animation.webcam_id),
                                           animation.start_time, animation.end_time)
        totalImages == totalImagesFor(animation.gif_type, Len(imageKeys))
        selectedImageKeys == desampleImageKeys(imageKeys, totalImages)
    IN IF hasMinimumImages(animation.gif_type, Len(selectedImageKeys))
       THEN updateAnimationWithImages(q, animation.id, "pending", selectedImageKeys, NoMessage)
       ELSE updateAnimationWithImages(q, animation.id, "failed", <<>>,
                <<"Insufficient images: found ", Len(selectedImageKeys),
                  " after desampling from ", Len(imageKeys),
                  ", required minimum for ", animation.gif_type>>)

\* processAnimations without the per-animation try / catch and `continue`:
\* the first animation that fails ends the loop
RECURSIVE processAnimationsAborting(_, _, _, _)
processAnimationsAborting(q, animations, missing, throwing) ==
    IF animations = <<>> THEN q
    ELSE LET animation == Head(animations)
             next == processAnimation(q, animation,
                                      HasWebcam(animation.webcam_id) /\ animation.id # missing,
                                      animation.id = throwing)
         IN IF animation.id = missing \/ animation.id = throwing
            THEN next
            ELSE processAnimationsAborting(next, Tail(animations), missing, throwing)

\* for (const animation of animations): missing is the id of the animation
\* whose webcam lookup returns null, throwing the id of the one whose
\* processing throws (0: none)
RECURSIVE processAnimations(_, _, _, _)
processAnimations(q, animations, missing, throwing) ==
    IF animations = <<>> THEN q
    ELSE LET animation == Head(animations)
         IN processAnimations(
                processAnimation(q, animation,
                                 HasWebcam(animation.webcam_id) /\ animation.id # missing,
                                 animation.id = throwing),
                Tail(animations), missing, throwing)

----------------------------------------------------------------------------
(* Inputs of the model *)

\* the day the model schedules: 2025-09-24 is day 4 from Epoch0
Day24 == 4 * MsPerDay

\* instants the clock can show: midnight, the minute the hourly job falls due
\* (14:05), and 15:00, when every job of the day is due
Instants == <<Day24,
              Day24 + 14 * MsPerHour + 5 * MsPerMinute,
              Day24 + 15 * MsPerHour>>

DateStrings ==
    { <<"2", "0", "2", "5", "-", "0", "9", "-", "2", "4">>,
      <<"2", "0", "2", "5", "0", "9", "2", "4">>,
      <<"2", "0", "2", "5", "/", "0", "9", "/", "2", "4">>,
      <<"2", "0", "2", "5", "-", "8", "-", "2", "4">> }

\* contents of the images table of webcam 1 ("Borealis") on 2025-09-24, time
\* stamps in Unix seconds from Epoch0
imageRow(timeStamp, ext) ==
    [webcamId |-> 1, timeStamp |-> timeStamp, objectName |-> imageKey("Borealis", timeStamp, ext)]

\* one image every 70 s from lightStart (12:14) to lightEnd (14:58): 141 rows,
\* 134 of them inside the sunrise window 12:14-14:50
DenseFirst == 389640
DenseStep == 70
DenseCount == 141
DenseImages == [k \in 1..DenseCount |-> imageRow(DenseFirst + DenseStep * (k - 1), ".jpg")]

\* ten images: five in the hourly window 13:00-14:00 (both ends included), two
\* in the sunset window, one stored without extension
SparseImages ==
    << imageRow(390000, ".jpg"), imageRow(391000, ""), imageRow(392400, ".jpg"),
       imageRow(393000, ".jpg"), imageRow(394000, ".jpg"), imageRow(395000, ".jpg"),
       imageRow(396000, ".jpg"), imageRow(397000, ".jpg"), imageRow(398800, ".jpg"),
       imageRow(399400, ".jpg") >>

ImageTables == {<<>>, SparseImages, DenseImages}

----------------------------------------------------------------------------
(* The state machine *)

\* the images seen by the retention policies (none), no policy applied yet
NoRetention ==
    [rows |-> <<>>, policy |-> "none", range |-> <<0, 0>>, failing |-> {}, puts |-> 0,
     applies |-> 0]

\* processAllWebcams not started: no webcam task exists
NoCapture == [started |-> FALSE, returned |-> FALSE, pc |-> <<>>]

\* no cron tick handled yet
NoTick == [at |-> NoTime, scheduling |-> "none", capture |-> FALSE, queue |-> FALSE,
           cleanup |-> FALSE]

\* the two runs of prepareAnimationsForPendingQueue, neither started
NoRuns == [r \in 1..2 |-> [pc |-> "idle", animations |-> <<>>]]

\* the two calls of markAnimationCompleted, neither started
NoCalls == [c \in 1..2 |-> [pc |-> "idle", id |-> 0, status |-> "none", success |-> FALSE]]

\* GET gifs/to-create not requested yet
NoResponse == [called |-> FALSE, gifs |-> <<>>]

\* no call of desampleImageKeys recorded
NoCall == [called |-> FALSE, sourceImages |-> <<>>, totalImages |-> 0, result |-> <<>>]

NoOp == [op |-> "none", dateString |-> <<>>, id |-> 0, threw |-> FALSE,
         success |-> FALSE, message |-> <<>>, http |-> 0,
         missing |-> 0, throwing |-> 0]

Init ==
    /\ webcams = WebcamsTable
    /\ images \in ImageTables
    /\ queue = <<>>
    /\ nextId = 1
    /\ now = Instants[1]
    /\ faults = 0
    /\ completions = 0
    /\ lastDesample = NoCall
    /\ capture = NoCapture
    /\ tick = NoTick
    /\ runs = NoRuns
    /\ calls = NoCalls
    /\ toCreate = NoResponse
    /\ retention = NoRetention
    /\ lastOp = NoOp

\* the clock moves on to a later instant
Tick ==
    /\ \E i \in 1..Len(Instants) : Instants[i] > now /\ now' = Instants[i]
    /\ lastOp' = [NoOp EXCEPT !.op = "tick"]
    /\ UNCHANGED <<lastDesample, retention, capture, tick, runs, calls, toCreate, webcams, images, queue, nextId, faults, completions>>

\* createTodaysAnimations(repo, dateString)
createTodaysAnimations(dateString) ==
    IF ~dateRegexTest(dateString)
    THEN /\ lastOp' = [NoOp EXCEPT !.op = "createTodaysAnimations",
                                   !.dateString = dateString,
                                   !.threw = TRUE,
                                   !.message = <<"invalid date must be (YYYY-MM-DD)">>]
         /\ UNCHANGED <<lastDesample, retention, capture, tick, runs, calls, toCreate, webcams, images, queue, nextId, now, faults, completions>>
    ELSE LET animations == animationsToCreate(getEnabledWebcams, dateString)
         IN /\ nextId + Len(animations) - 1 <= MaxEntries
            /\ queue' = addAnimationsToQueue(queue, animations, nextId)
            /\ nextId' = nextId + Len(animations)
            /\ lastOp' = [NoOp EXCEPT !.op = "createTodaysAnimations",
                                      !.dateString = dateString]
            /\ UNCHANGED <<lastDesample, retention, capture, tick, runs, calls, toCreate, webcams, images, now, faults, completions>>

CreateTodaysAnimations == \E dateString \in DateStrings : createTodaysAnimations(dateString)

\* prepareAnimationsForPendingQueue(repo, now)
prepareAnimationsForPendingQueue(missing, throwing) ==
    LET animations == getWaitingAnimations(queue, now)
    IN /\ queue' = processAnimations(queue, animations, missing, throwing)
       /\ lastOp' = [NoOp EXCEPT !.op = "prepareAnimationsForPendingQueue",
                                 !.missing = missing, !.throwing = throwing]
       /\ faults' = faults + (IF missing # 0 THEN 1 ELSE 0) + (IF throwing # 0 THEN 1 ELSE 0)
       /\ UNCHANGED <<lastDesample, retention, capture, tick, runs, calls, toCreate, webcams, images, nextId, now, completions>>

PrepareAnimationsForPendingQueue ==
    LET ids == {queue[i].id : i \in {j \in 1..Len(queue) :
                    queue[j].status = "waiting_for_images" /\ queue[j].scheduled_time <= now}}
    IN \E missing \in ids \cup {0}, throwing \in ids \cup {0} :
           /\ faults + (IF missing # 0 THEN 1 ELSE 0) + (IF throwing # 0 THEN 1 ELSE 0) <= MaxFaults
           /\ prepareAnimationsForPendingQueue(missing, throwing)

\* String.prototype.includes on the messages of markAnimationCompleted
messageIncludes(message, needle) ==
    \E i \in 1..Len(message) :
        \/ needle = "not found" /\ message[i] = " not found"
        \/ needle = "not in pending status"
              /\ message[i] = "Animation is not in pending status. Current status: "

\* markAnimationCompleted without the check of the current status
markAnimationCompletedResultAnyStatus(q, id) ==
    IF ~HasEntry(q, id)
    THEN [success |-> FALSE,
          message |-> <<"Animation queue entry with ID ">> \o NumberString(id) \o <<" not found">>]
    ELSE [success |-> TRUE, message |-> <<"Animation marked as completed successfully">>]

\* AnimationQueueRepository.markAnimationCompleted(id): the result and the table
markAnimationCompletedResult(q, id) ==
    IF ~HasEntry(q, id)
    THEN [success |-> FALSE,
          message |-> <<"Animation queue entry with ID ">> \o NumberString(id) \o <<" not found">>]
    ELSE IF EntryOf(q, id).status # "pending"
    THEN [success |-> FALSE,
          message |-> <<"Animation is not in pending status. Current status: ",
                        EntryOf(q, id).status>>]
    ELSE [success |-> TRUE, message |-> <<"Animation marked as completed successfully">>]

markAnimationCompleted(q, id) ==
    IF markAnimationCompletedResult(q, id).success
    THEN [i \in 1..Len(q) |->
             IF q[i].id = id
             THEN [q[i] EXCEPT !.status = "completed", !.processed_at = now]
             ELSE q[i]]
    ELSE q

\* app.put("gifs/:id/complete"): the status code of the response
httpStatus(result) ==
    IF ~result.success
    THEN IF messageIncludes(result.message, "not found") THEN 404
         ELSE IF messageIncludes(result.message, "not in pending status") THEN 409
         ELSE 500
    ELSE 200

PutGifComplete ==
    \E id \in 1..nextId :
        LET result == markAnimationCompletedResult(queue, id)
        IN /\ result.success => completions < MaxCompletions
           /\ completions' = completions + (IF result.success THEN 1 ELSE 0)
           /\ queue' = markAnimationCompleted(queue, id)
           /\ lastOp' = [NoOp EXCEPT !.op = "markAnimationCompleted",
                                     !.id = id,
                                     !.success = result.success,
                                     !.message = result.message,
                                     !.http = httpStatus(result)]
           /\ UNCHANGED <<lastDesample, retention, capture, tick, runs, calls, toCreate, webcams, images, nextId, now, faults>>

Next ==
    \/ Tick
    \/ CreateTodaysAnimations
    \/ PrepareAnimationsForPendingQueue
    \/ PutGifComplete

Spec == Init /\ [][Next]_vars

----------------------------------------------------------------------------
(* The scheduler alone, over webcams of every location and timezone *)

ScheduleLocations ==
    {"LongTwilight", "LateTwilight", "OnTheHour", "NoSunset", "NoDawn", "NoEvents",
     "invalid", NULL}

ScheduleTimezones == {"America/Denver", "Asia/Tokyo", NULL}

ScheduleDateStrings ==
    { <<"2", "0", "2", "5", "-", "0", "9", "-", "2", "4">>,
      <<"2", "0", "2", "5", "-", "0", "9", "-", "2", "5">>,
      <<"2", "0", "2", "5", "-", "9", "-", "2", "4">> }

InitSchedule ==
    /\ webcams \in { <<Webcam(1, "Borealis", TRUE, latLon, timezone)>> :
                        latLon \in ScheduleLocations, timezone \in ScheduleTimezones }
    /\ images = <<>>
    /\ queue = <<>>
    /\ nextId = 1
    /\ now = Instants[1]
    /\ faults = 0
    /\ completions = 0
    /\ lastDesample = NoCall
    /\ capture = NoCapture
    /\ tick = NoTick
    /\ runs = NoRuns
    /\ calls = NoCalls
    /\ toCreate = NoResponse
    /\ retention = NoRetention
    /\ lastOp = NoOp

ScheduleDay == \E dateString \in ScheduleDateStrings : createTodaysAnimations(dateString)

NextSchedule == ScheduleDay

SpecSchedule == InitSchedule /\ [][NextSchedule]_vars

----------------------------------------------------------------------------
(* desampleImageKeys alone, over lists of image keys in any order *)

\* longest list of source keys, largest totalImages
MaxSourceLen == 5
MaxWanted == 4

\* keys of four images taken at 10, 20, 20 and 40 s, and one whose file name
\* has no extension
DesampleKeys ==
    { imageKey("Borealis", 10, ".jpg"), imageKey("Borealis", 20, ".jpg"),
      imageKey("Borealis", 20, ".png"), imageKey("Borealis", 40, ".jpg"),
      imageKey("Borealis", 30, "") }

DesampleSources == UNION { [1..n -> DesampleKeys] : n \in 0..MaxSourceLen }

InitDesample ==
    /\ webcams = WebcamsTable
    /\ images = <<>>
    /\ queue = <<>>
    /\ nextId = 1
    /\ now = Instants[1]
    /\ faults = 0
    /\ completions = 0
    /\ lastOp = NoOp
    /\ lastDesample = NoCall
    /\ capture = NoCapture
    /\ tick = NoTick
    /\ runs = NoRuns
    /\ calls = NoCalls
    /\ toCreate = NoResponse
    /\ retention = NoRetention

\* one call desampleImageKeys(sourceImages, totalImages)
DesampleImageKeys ==
    /\ ~lastDesample.called
    /\ \E sourceImages \in DesampleSources, totalImages \in (0 - 1)..MaxWanted :
           lastDesample' = [called |-> TRUE,
                         sourceImages |-> sourceImages,
                         totalImages |-> totalImages,
                         result |-> desampleImageKeys(sourceImages, totalImages)]
    /\ UNCHANGED <<retention, capture, tick, runs, calls, toCreate, webcams, images, queue, nextId, now,
                   faults, completions, lastOp>>

NextDesample == DesampleImageKeys

SpecDesample == InitDesample /\ [][NextDesample]_vars

----------------------------------------------------------------------------
(* Retention policies: SunriseRetentionPolicy, SolarNoonRetentionPolicy,     *)
(* SunsetRetentionPolicy.  An image row is [id, webcamId, timeStamp (Unix   *)
(* seconds), retentionPolicy (the set of its tags)].                        *)

\* applications of a policy in one behaviour
MaxApplies == 2

RetentionPolicies == {"Sunrise", "SolarNoon", "Sunset"}

\* WebcamRepository.getAllWebcams: every webcam, ORDER BY name
getAllWebcams == webcams

\* `days` of apply(repo, start, end).  Sunrise: startDay, then every UTC
\* midnight after it up to endDay; SolarNoon and Sunset: `const days = []`
RECURSIVE daysFrom(_, _)
daysFrom(currentDay, endDay) ==
    IF ~(currentDay <= endDay) THEN <<>>
    ELSE <<currentDay>> \o daysFrom(currentDay - (currentDay % MsPerDay) + MsPerDay, endDay)

daysOf(policy, start, end) ==
    IF policy = "Sunrise" THEN daysFrom(start * MsPerSecond, end * MsPerSecond) ELSE <<>>

\* `isNaN(...) || isNaN(...)`: the policy cannot compute its target from
\* these (non-null) solar times
noTarget(policy, solarTimes) ==
    CASE policy = "Sunrise" -> isNaN(solarTimes.sunrise) \/ isNaN(solarTimes.firstLight)
      [] policy = "SolarNoon" -> isNaN(solarTimes.sunrise) \/ isNaN(solarTimes.sunset)
      [] policy = "Sunset" -> isNaN(solarTimes.sunset) \/ isNaN(solarTimes.lastLight)

\* imageTime: Sunrise divides the midpoint by 1000 (seconds), SolarNoon and
\* Sunset keep it in milliseconds
imageTimeOf(policy, solarTimes) ==
    CASE policy = "Sunrise" -> ((solarTimes.sunrise + solarTimes.firstLight) \div 2) \div MsPerSecond
      [] policy = "SolarNoon" -> (solarTimes.sunrise + solarTimes.sunset) \div 2
      [] policy = "Sunset" -> (solarTimes.sunset + solarTimes.lastLight) \div 2

\* the bounds handed to getImagesForTimeRange
searchWindow(policy, imageTime) ==
    CASE policy = "Sunrise" -> <<imageTime - 5 * 60, 15 * 60 + imageTime>>
      [] policy = "SolarNoon" -> <<imageTime - 15 * 60 * 1000, 15 * 60 * 1000 + imageTime>>
      [] policy = "Sunset" -> <<imageTime - 15 * 60 * 1000, 5 * 60 * 1000 + imageTime>>

\* the distance the sort compares
distanceOf(policy, row, imageTime) ==
    IF policy = "Sunrise" THEN Abs(row.timeStamp - imageTime)
    ELSE Abs(row.timeStamp * 1000 - imageTime)

\* ImageRepository.getImagesForTimeRange on the rows of the retention model:
\* indices of the webcam's rows in the range, ORDER BY time_stamp ASC
imageIndicesForTimeRange(rows, webcam, startTime, endTime) ==
    LET found == SelectSeq([k \in 1..Len(rows) |-> k],
                           LAMBDA k : /\ rows[k].webcamId = webcam.id
                                      /\ startTime <= rows[k].timeStamp
                                      /\ rows[k].timeStamp <= endTime)
    IN SortSeq(found, LAMBDA a, b : rows[a].timeStamp < rows[b].timeStamp)

\* selected image of the window already has the tag: `continue`, no write
alreadyTaggedNever(row, policy) == FALSE

alreadyTagged(row, policy) == policy \in row.retentionPolicy

\* ImageRepository.putImage(image): UPDATE images SET ... WHERE id = image.id;
\* a failing update is caught and answered with false, the table unchanged
putImage(rows, image, failing) ==
    IF image.id \in failing THEN rows
    ELSE [k \in 1..Len(rows) |-> IF rows[k].id = image.id THEN image ELSE rows[k]]

\* `retentionPolicy.filter(x => x != tag)` wiping every tag
removePolicyAndOthers(row, policy) == [row EXCEPT !.retentionPolicy = {}]

\* `retentionPolicy = (retentionPolicy ?? []).filter(x => x != tag)`
removePolicy(row, policy) == [row EXCEPT !.retentionPolicy = @ \ {policy}]

\* `retentionPolicy ??= []; retentionPolicy.push(tag)`
pushPolicy(row, policy) == [row EXCEPT !.retentionPolicy = @ \cup {policy}]

\* `for (const imageToRemovePolicy of needsPolicyRemoved)`
RECURSIVE removeFrom(_, _, _, _)
removeFrom(rows, needsPolicyRemoved, policy, failing) ==
    IF needsPolicyRemoved = <<>> THEN rows
    ELSE removeFrom(putImage(rows, removePolicy(Head(needsPolicyRemoved), policy), failing),
                    Tail(needsPolicyRemoved), policy, failing)

\* a putImage answering false stops the loop
stopWhenPutImageFails(success, remaining) == IF success THEN remaining ELSE <<>>

\* `if (!await putImage(...)) console.log(...)`: what is still to be processed
\* after the putImage calls of a day, whether they succeeded or not
afterPutImage(success, remaining) == remaining

\* body of `for (const day of days)` for one webcam: the rows after it, the
\* number of putImage calls and whether all of them succeeded
applyDay(policy, rows, webcam, day, failing) ==
    LET solarTimes == calculateWebcamSolarTimes(webcam.latLon, day)
    IN IF ~parseableLatLon(webcam.latLon) \/ noTarget(policy, solarTimes) THEN <<rows, 0, TRUE>>
       ELSE
       LET imageTime == imageTimeOf(policy, solarTimes)
           window == searchWindow(policy, imageTime)
           found == imageIndicesForTimeRange(rows, webcam, window[1], window[2])
       IN IF found = <<>> THEN <<rows, 0, TRUE>>
          ELSE
          LET selected == found[CHOOSE k \in 1..Len(found) :
                                   /\ \A j \in 1..Len(found) :
                                         distanceOf(policy, rows[found[k]], imageTime)
                                             <= distanceOf(policy, rows[found[j]], imageTime)
                                   /\ \A j \in 1..(k - 1) :
                                         distanceOf(policy, rows[found[j]], imageTime)
                                             # distanceOf(policy, rows[found[k]], imageTime)]
              inWindow == [k \in 1..Len(found) |-> rows[found[k]]]
              notSelected == SelectSeq(inWindow, LAMBDA x : x.id # rows[selected].id)
              needsPolicyRemoved == SelectSeq(notSelected, LAMBDA x : policy \in x.retentionPolicy)
              cleared == removeFrom(rows, needsPolicyRemoved, policy, failing)
              removed == \A k \in 1..Len(needsPolicyRemoved) : needsPolicyRemoved[k].id \notin failing
          IN IF alreadyTagged(rows[selected], policy)
             THEN <<cleared, Len(needsPolicyRemoved), removed>>
             ELSE <<putImage(cleared, pushPolicy(rows[selected], policy), failing),
                    Len(needsPolicyRemoved) + 1,
                    removed /\ rows[selected].id \notin failing>>

\* `for (const day of days)`; state is <<rows, puts, days still to process>>
RECURSIVE applyDays(_, _, _, _, _)
applyDays(policy, state, webcam, days, failing) ==
    IF days = <<>> THEN state
    ELSE LET next == applyDay(policy, state[1], webcam, Head(days), failing)
         IN applyDays(policy, <<next[1], state[2] + next[2]>>, webcam,
                      afterPutImage(next[3], Tail(days)), failing)

\* `for (const webcam of webcams)`
RECURSIVE applyWebcams(_, _, _, _, _, _)
applyWebcams(policy, state, ws, start, end, failing) ==
    IF ws = <<>> THEN state
    ELSE applyWebcams(policy,
                      applyDays(policy, state, Head(ws), daysOf(policy, start, end), failing),
                      Tail(ws), start, end, failing)

\* images of webcam 1 on 2025-09-24 ("LongTwilight"): the sunrise target is
\* 13:32:00 (394320 s, window 394020 .. 395220), the solar noon target 14:36:00
\* (398160 s), the sunset target 14:52:00 (399120 s); the last image is taken
\* at 13:31:00 of 2025-09-25, in the sunrise window of the next day; the
\* seventh image (13:31:40 of the 24th) belongs to webcam 6
RetentionStamps == <<394100, 394260, 394380, 395300, 398100, 399100, 394300, 480660>>

\* the table with the images of `present`; with stale, tags of earlier runs
\* are present: the 394100 image carries 'Sunrise' and 'Sunset', the 394260
\* image 'SolarNoon', the 398100 image 'SolarNoon' 
retentionRows(present, stale) ==
    LET kept == SelectSeq([k \in 1..Len(RetentionStamps) |-> k], LAMBDA k : k \in present)
    IN [j \in 1..Len(kept) |->
           [id |-> kept[j], webcamId |-> IF kept[j] = 7 THEN 6 ELSE 1,
            timeStamp |-> RetentionStamps[kept[j]],
            retentionPolicy |->
                IF stale /\ kept[j] = 1 THEN {"Sunrise", "Sunset"}
                ELSE IF stale /\ kept[j] \in {2, 5} THEN {"SolarNoon"}
                ELSE {}]]

\* the range applyRetentionPolicies hands to apply for a date: the local day
\* of the webcam's timezone, start = local midnight, end = start + 86400 - 1
localDayRange(dayStart, timezone) ==
    LET start == (dayStart - ZoneOffset(timezone) * MsPerHour) \div MsPerSecond
    IN <<start, start + 24 * 60 * 60 - 1>>

\* ranges [start, end] in Unix seconds: the UTC day 2025-09-24 and the day
\* 2025-09-24 of America/Denver
RetentionRanges ==
    { <<Day24 \div MsPerSecond, (Day24 + MsPerDay) \div MsPerSecond - 1>>,
      localDayRange(Day24, "America/Denver") }

\* the image tables: the image outside the sunrise window is always there,
\* the solar noon and the sunset image come together
RetentionTables ==
    { present \in SUBSET (1..Len(RetentionStamps)) :
          4 \in present /\ (5 \in present <=> 6 \in present) }

InitRetention ==
    /\ webcams = WebcamsTable
    /\ images = <<>>
    /\ queue = <<>>
    /\ nextId = 1
    /\ now = Instants[1]
    /\ faults = 0
    /\ completions = 0
    /\ lastOp = NoOp
    /\ lastDesample = NoCall
    /\ capture = NoCapture
    /\ tick = NoTick
    /\ runs = NoRuns
    /\ calls = NoCalls
    /\ toCreate = NoResponse
    /\ \E present \in RetentionTables, stale \in BOOLEAN :
          retention = [NoRetention EXCEPT !.rows = retentionRows(present, stale)]

\* ids of the images whose putImage fails during one application
FailingImages == {{}, {1}, {2}}

\* policy.apply(repo, start, end); putImage answers false for the images of
\* `failing`
Apply(policy, range, failing) ==
    LET after == applyWebcams(policy, <<retention.rows, 0>>, getAllWebcams, range[1], range[2],
                              failing)
    IN /\ retention.applies < MaxApplies
       /\ retention' = [rows |-> after[1], policy |-> policy, range |-> range,
                        failing |-> failing, puts |-> after[2],
                        applies |-> retention.applies + 1]
       /\ UNCHANGED <<lastDesample, capture, tick, runs, calls, toCreate, webcams, images, queue, nextId, now, faults,
                      completions, lastOp>>

ApplyRetentionPolicy ==
    \E policy \in RetentionPolicies, range \in RetentionRanges, failing \in FailingImages :
        Apply(policy, range, failing)

NextRetention == ApplyRetentionPolicy

SpecRetention == InitRetention /\ [][NextRetention]_vars

----------------------------------------------------------------------------
(* processAllWebcams: one processWebcam task per enabled webcam, run          *)
(* concurrently under Promise.allSettled.  capture.pc[k] is the task of the   *)
(* k-th enabled webcam: where it stands and whether it stored an image.       *)

\* what captureWebCamImage can do: return null (not due, HTTP 304, duplicate
\* hash), store the image and return the report, throw before anything is
\* stored (fetch error), or throw after the image was stored (storage or
\* database error in updateWebcamStatus / logWebcamActivity)
CaptureOutcomes == {"skipped", "saved", "fetchError", "storageError"}

\* Promise.all: settles with the first rejection
promiseAll(pc) ==
    \/ \A k \in 1..Len(pc) : pc[k].at = "fulfilled"
    \/ \E k \in 1..Len(pc) : pc[k].at = "rejected"

\* Promise.allSettled: settles when every task is fulfilled or rejected
promiseAllSettled(pc) == \A k \in 1..Len(pc) : pc[k].at \in {"fulfilled", "rejected"}

InitCapture ==
    /\ webcams = WebcamsTable
    /\ images = <<>>
    /\ queue = <<>>
    /\ nextId = 1
    /\ now = Instants[1]
    /\ faults = 0
    /\ completions = 0
    /\ lastOp = NoOp
    /\ lastDesample = NoCall
    /\ retention = NoRetention
    /\ capture = NoCapture
    /\ tick = NoTick
    /\ runs = NoRuns
    /\ calls = NoCalls
    /\ toCreate = NoResponse

\* processAllWebcams up to Promise.allSettled(webcams.map(processWebcam));
\* getEnabledWebcams answers [] when its query fails
ProcessAllWebcams ==
    /\ ~capture.started
    /\ \E queryFails \in BOOLEAN :
          LET found == IF queryFails THEN <<>> ELSE getEnabledWebcams
          IN capture' = [capture EXCEPT
                 !.started = TRUE,
                 !.pc = [k \in 1..Len(found) |->
                            [webcamId |-> found[k].id, at |-> "capture", saved |-> FALSE]]]
    /\ UNCHANGED <<lastDesample, retention, tick, runs, calls, toCreate, webcams, images, queue, nextId,
                   now, faults, completions, lastOp>>

\* processWebcam: `await captureWebCamImage(webcam, repo, r2Tracker)`
CaptureWebCamImage(k) ==
    /\ capture.started /\ ~capture.returned
    /\ capture.pc[k].at = "capture"
    /\ \E outcome \in CaptureOutcomes :
          capture' = [capture EXCEPT
              !.pc[k].saved = outcome \in {"saved", "storageError"},
              !.pc[k].at = IF outcome \in {"skipped", "saved"} THEN "diagnostics" ELSE "catch"]
    /\ UNCHANGED <<lastDesample, retention, tick, runs, calls, toCreate, webcams, images, queue, nextId,
                   now, faults, completions, lastOp>>

\* processWebcam: `await repo.diagnostics.updateWebcamDiagnostics(...)`
UpdateWebcamDiagnostics(k) ==
    /\ capture.started /\ ~capture.returned
    /\ capture.pc[k].at = "diagnostics"
    /\ \E throws \in BOOLEAN :
          capture' = [capture EXCEPT !.pc[k].at = IF throws THEN "catch" ELSE "fulfilled"]
    /\ UNCHANGED <<lastDesample, retention, tick, runs, calls, toCreate, webcams, images, queue, nextId,
                   now, faults, completions, lastOp>>

\* processWebcam, catch block: logWebcamError and logWebcamActivity; when one
\* of them throws the task's promise is rejected
LogWebcamError(k) ==
    /\ capture.started /\ ~capture.returned
    /\ capture.pc[k].at = "catch"
    /\ \E throws \in BOOLEAN :
          capture' = [capture EXCEPT !.pc[k].at = IF throws THEN "rejected" ELSE "fulfilled"]
    /\ UNCHANGED <<lastDesample, retention, tick, runs, calls, toCreate, webcams, images, queue, nextId,
                   now, faults, completions, lastOp>>

\* processAllWebcams after the await: counts the results and returns; nothing
\* in the try block throws once the promises are settled
AllSettled ==
    /\ capture.started /\ ~capture.returned
    /\ promiseAllSettled(capture.pc)
    /\ capture' = [capture EXCEPT !.returned = TRUE]
    /\ UNCHANGED <<lastDesample, retention, tick, runs, calls, toCreate, webcams, images, queue, nextId,
                   now, faults, completions, lastOp>>

NextCapture ==
    \/ ProcessAllWebcams
    \/ \E k \in 1..Len(capture.pc) : CaptureWebCamImage(k)
    \/ \E k \in 1..Len(capture.pc) : UpdateWebcamDiagnostics(k)
    \/ \E k \in 1..Len(capture.pc) : LogWebcamError(k)
    \/ AllSettled

SpecCapture == InitCapture /\ [][NextCapture]_vars

----------------------------------------------------------------------------
(* GET gifs/to-create: getPendingAnimations on queues of up to MaxQueueLen   *)
(* entries                                                                   *)

\* rows of the queue table when the route is called
MaxQueueLen == 12

\* how the scheduled times lie in the table: ascending, descending, three
\* values repeating, scattered
TimeOrders == {"ascending", "descending", "ties", "scattered"}

\* which rows are pending: all, all but every third (still waiting), all but
\* the first two (completed), none
StatusPatterns == {"all", "thirds", "tail", "none"}

scheduledMinute(order, i) ==
    CASE order = "ascending" -> i
      [] order = "descending" -> MaxQueueLen + 1 - i
      [] order = "ties" -> i % 3
      [] order = "scattered" -> (i * 5) % 13

statusOfRow(pattern, i) ==
    CASE pattern = "all" -> "pending"
      [] pattern = "thirds" -> IF i % 3 = 0 THEN "waiting_for_images" ELSE "pending"
      [] pattern = "tail" -> IF i <= 2 THEN "completed" ELSE "pending"
      [] pattern = "none" -> IF i % 2 = 0 THEN "failed" ELSE "waiting_for_images"

\* a queue table of n hourly entries of webcam 1
queueTable(n, order, pattern) ==
    [i \in 1..n |->
        LET scheduledTime == Day24 + 14 * MsPerHour + scheduledMinute(order, i) * MsPerMinute
        IN [createAnimationEntry(WebcamsTable[2], "hourly", scheduledTime,
                                 (Day24 + 13 * MsPerHour) \div MsPerSecond,
                                 (Day24 + 14 * MsPerHour) \div MsPerSecond)
               EXCEPT !.id = i, !.status = statusOfRow(pattern, i)]]

InitToCreate ==
    /\ webcams = WebcamsTable
    /\ images = <<>>
    /\ \E n \in 0..MaxQueueLen, order \in TimeOrders, pattern \in StatusPatterns :
          /\ queue = queueTable(n, order, pattern)
          /\ nextId = n + 1
    /\ now = Instants[3]
    /\ faults = 0
    /\ completions = 0
    /\ lastOp = NoOp
    /\ lastDesample = NoCall
    /\ retention = NoRetention
    /\ capture = NoCapture
    /\ tick = NoTick
    /\ runs = NoRuns
    /\ calls = NoCalls
    /\ toCreate = NoResponse

\* app.get("gifs/to-create")
GetGifsToCreate ==
    /\ ~toCreate.called
    /\ toCreate' = [called |-> TRUE, gifs |-> getPendingAnimations(queue)]
    /\ UNCHANGED <<lastDesample, retention, capture, tick, runs, calls, webcams, images, queue,
                   nextId, now, faults, completions, lastOp>>

NextToCreate == GetGifsToCreate

SpecToCreate == InitToCreate /\ [][NextToCreate]_vars

----------------------------------------------------------------------------
(* app.scheduled: the handler of the cron tick (once a minute)               *)

\* the minutes at which the model lets the cron fire on 2025-09-24
TickInstants == <<Day24,
                  Day24 + 14 * MsPerHour + 5 * MsPerMinute,
                  Day24 + 15 * MsPerHour,
                  Day24 + 23 * MsPerHour + 57 * MsPerMinute,
                  Day24 + 23 * MsPerHour + 58 * MsPerMinute>>

\* Date.getMinutes()
MinuteOfHour(ms) == (ms % MsPerHour) \div MsPerMinute

\* Date.getUTCMonth() in the calendar of the model: September is month 8
getUTCMonth(ms) == 8

\* `${now.getUTCFullYear()}-${now.getUTCMonth()}-${now.getUTCDate()}`
tickDateString(ms) ==
    <<"2", "0", "2", "5", "-">> \o NumberString(getUTCMonth(ms)) \o <<"-">>
        \o NumberString(DayOfMonth(LocalDayIndex(ms, 0)))

InitTick ==
    /\ webcams = WebcamsTable
    /\ images \in {<<>>, SparseImages}
    /\ queue = <<>>
    /\ nextId = 1
    /\ now = TickInstants[1]
    /\ faults = 0
    /\ completions = 0
    /\ lastOp = NoOp
    /\ lastDesample = NoCall
    /\ retention = NoRetention
    /\ capture = NoCapture
    /\ tick = NoTick
    /\ runs = NoRuns
    /\ calls = NoCalls
    /\ toCreate = NoResponse

\* a minute passes: the clock shows a later instant
NextMinute ==
    /\ \E i \in 1..Len(TickInstants) : TickInstants[i] > now /\ now' = TickInstants[i]
    /\ UNCHANGED <<lastDesample, retention, capture, tick, runs, calls, toCreate, webcams,
                   images, queue, nextId, faults, completions, lastOp>>

\* app.scheduled for the tick at `now`.  An image captured by
\* processAllWebcams carries the time of the tick, which lies after the end of
\* every animation that is due, so prepareAnimationsForPendingQueue reads the
\* same images before and after the capture.
Scheduled ==
    LET daily == LocalHour(now, 0) = 23 /\ MinuteOfHour(now) = 57
        dateString == tickDateString(now)
    IN /\ tick.at # now
       /\ IF daily /\ ~dateRegexTest(dateString)
          THEN /\ tick' = [NoTick EXCEPT !.at = now, !.scheduling = "threw"]
               /\ UNCHANGED <<images, queue, nextId>>
          ELSE LET animations == IF daily
                                 THEN animationsToCreate(getEnabledWebcams, dateString)
                                 ELSE <<>>
                   scheduled == addAnimationsToQueue(queue, animations, nextId)
               IN /\ nextId + Len(animations) - 1 <= MaxEntries
                  /\ nextId' = nextId + Len(animations)
                  /\ \E captured \in BOOLEAN :
                        images' = IF captured
                                  THEN Append(images, imageRow(now \div MsPerSecond, ".jpg"))
                                  ELSE images
                  /\ queue' = processAnimations(scheduled, getWaitingAnimations(scheduled, now),
                                                0, 0)
                  /\ tick' = [at |-> now,
                              scheduling |-> IF daily THEN "done" ELSE "none",
                              capture |-> TRUE,
                              queue |-> TRUE,
                              cleanup |-> MinuteOfHour(now) = 0]
       /\ UNCHANGED <<lastDesample, retention, capture, runs, calls, toCreate, webcams, now,
                      faults, completions, lastOp>>

NextTick ==
    \/ NextMinute
    \/ Scheduled
    \/ CreateTodaysAnimations

SpecTick == InitTick /\ [][NextTick]_vars

----------------------------------------------------------------------------
(* Overlapping runs: two runs of prepareAnimationsForPendingQueue (two cron  *)
(* ticks) and two requests PUT gifs/:id/complete, interleaved at their        *)
(* database calls                                                             *)

\* the queue after createTodaysAnimations(repo, '2025-09-24')
scheduledQueue ==
    addAnimationsToQueue(<<>>,
        animationsToCreate(SelectSeq(WebcamsTable, LAMBDA w : w.enabled),
                           <<"2", "0", "2", "5", "-", "0", "9", "-", "2", "4">>),
        1)

InitOverlap ==
    /\ webcams = WebcamsTable
    /\ images \in {<<>>, SparseImages}
    /\ queue = scheduledQueue
    /\ nextId = Len(scheduledQueue) + 1
    /\ now = Instants[3]
    /\ faults = 0
    /\ completions = 0
    /\ lastOp = NoOp
    /\ lastDesample = NoCall
    /\ retention = NoRetention
    /\ capture = NoCapture
    /\ tick = NoTick
    /\ runs = NoRuns
    /\ calls = NoCalls
    /\ toCreate = NoResponse

\* prepareAnimationsForPendingQueue, run r: `await getWaitingAnimations(now)`;
\* with no animation the run returns
GetWaitingAnimations(r) ==
    /\ runs[r].pc = "idle"
    /\ LET animations == getWaitingAnimations(queue, now)
       IN runs' = [runs EXCEPT ![r] = [pc |-> IF animations = <<>> THEN "done" ELSE "running",
                                       animations |-> animations]]
    /\ UNCHANGED <<lastDesample, retention, capture, tick, calls, toCreate, webcams, images,
                   queue, nextId, now, faults, completions, lastOp>>

\* run r: one pass of `for (const animation of animations)` on the rows it
\* read at its start
ProcessAnimation(r) ==
    /\ runs[r].pc = "running"
    /\ LET animation == Head(runs[r].animations)
       IN queue' = processAnimation(queue, animation, HasWebcam(animation.webcam_id), FALSE)
    /\ runs' = [runs EXCEPT ![r] = [pc |-> IF Len(runs[r].animations) = 1
                                           THEN "done" ELSE "running",
                                    animations |-> Tail(runs[r].animations)]]
    /\ UNCHANGED <<lastDesample, retention, capture, tick, calls, toCreate, webcams, images,
                   nextId, now, faults, completions, lastOp>>

\* markAnimationCompleted, call c: SELECT id, status ... WHERE id = id LIMIT 1
SelectStatus(c, id) ==
    /\ calls[c].pc = "idle"
    /\ calls' = [calls EXCEPT ![c] = [pc |-> "read", id |-> id,
                                      status |-> IF HasEntry(queue, id)
                                                 THEN EntryOf(queue, id).status
                                                 ELSE "not found",
                                      success |-> FALSE]]
    /\ UNCHANGED <<lastDesample, retention, capture, tick, runs, toCreate, webcams, images,
                   queue, nextId, now, faults, completions, lastOp>>

\* UPDATE gif_creation_queue SET status = 'completed', processed_at = ...
\* WHERE id = id
setCompleted(q, id) ==
    [i \in 1..Len(q) |->
        IF q[i].id = id THEN [q[i] EXCEPT !.status = "completed", !.processed_at = now]
        ELSE q[i]]

\* markAnimationCompleted, call c, after the SELECT: the checks on the row it
\* read, then the update and the answer
UpdateCompleted(c) ==
    /\ calls[c].pc = "read"
    /\ IF calls[c].status = "pending"
       THEN /\ queue' = setCompleted(queue, calls[c].id)
            /\ calls' = [calls EXCEPT ![c].pc = "done", ![c].success = TRUE]
       ELSE /\ queue' = queue
            /\ calls' = [calls EXCEPT ![c].pc = "done"]
    /\ UNCHANGED <<lastDesample, retention, capture, tick, runs, toCreate, webcams, images,
                   nextId, now, faults, completions, lastOp>>

NextOverlap ==
    \/ \E r \in 1..2 : GetWaitingAnimations(r)
    \/ \E r \in 1..2 : ProcessAnimation(r)
    \/ \E c \in 1..2, id \in 1..nextId : SelectStatus(c, id)
    \/ \E c \in 1..2 : UpdateCompleted(c)

SpecOverlap == InitOverlap /\ [][NextOverlap]_vars

----------------------------------------------------------------------------
(* Progress of the queue: the entries scheduled for 2025-09-24, the clock,    *)
(* one run of prepareAnimationsForPendingQueue after the other (step by step *)
(* as in the overlapping runs), some passes losing their database write, and *)
(* completions                                                               *)

InitProgress ==
    /\ webcams = WebcamsTable
    /\ images \in {<<>>, SparseImages}
    /\ queue = scheduledQueue
    /\ nextId = Len(scheduledQueue) + 1
    /\ now = Instants[1]
    /\ faults = 0
    /\ completions = 0
    /\ lastOp = NoOp
    /\ lastDesample = NoCall
    /\ retention = NoRetention
    /\ capture = NoCapture
    /\ tick = NoTick
    /\ runs = NoRuns
    /\ calls = NoCalls
    /\ toCreate = NoResponse

\* getWaitingAnimations' WHERE clause on one entry
IsDue(e) == e.status = "waiting_for_images" /\ e.scheduled_time <= now

\* run r, one pass of the loop in which the UPDATE fails:
\* updateAnimationWithImages catches the error and logs it, the entry stays as
\* it was and the loop goes on
LoseUpdate(r) ==
    /\ faults < MaxFaults
    /\ runs[r].pc = "running"
    /\ faults' = faults + 1
    /\ runs' = [runs EXCEPT ![r] = [pc |-> IF Len(runs[r].animations) = 1
                                           THEN "done" ELSE "running",
                                    animations |-> Tail(runs[r].animations)]]
    /\ UNCHANGED <<lastDesample, retention, capture, tick, calls, toCreate, webcams, images,
                   queue, nextId, now, completions, lastOp>>

\* run r has returned; the next tick calls prepareAnimationsForPendingQueue
\* again
NextRun(r) ==
    /\ runs[r].pc = "done"
    /\ runs' = [runs EXCEPT ![r] = [pc |-> "idle", animations |-> <<>>]]
    /\ UNCHANGED <<lastDesample, retention, capture, tick, calls, toCreate, webcams, images,
                   queue, nextId, now, faults, completions, lastOp>>

NextProgress ==
    \/ Tick
    \/ GetWaitingAnimations(1)
    \/ ProcessAnimation(1)
    \/ LoseUpdate(1)
    \/ NextRun(1)
    \/ PutGifComplete

\* the cron fires every minute and a run of the handler goes on to its end:
\* each step of the one run in progress that can happen does happen
SpecProgress ==
    /\ InitProgress
    /\ [][NextProgress]_vars
    /\ WF_vars(GetWaitingAnimations(1))
    /\ WF_vars(ProcessAnimation(1))
    /\ WF_vars(NextRun(1))

----------------------------------------------------------------------------
(* Properties *)

IsCandidate(e) == e.status = "waiting_for_images" /\ e.scheduled_time <= now

\* C1: the queue never holds two entries with the same reference_id, however
\* often createTodaysAnimations runs for the same date and webcams.
C1_UniqueReferenceId ==
    \A i, j \in 1..Len(queue) :
        queue[i].reference_id = queue[j].reference_id => i = j

C2_AllowedChanges ==
    { <<"waiting_for_images", "pending">>, <<"pending", "processing">>,
      <<"processing", "completed">>, <<"waiting_for_images", "failed">>,
      <<"pending", "failed">> }

\* C2: every change of an entry's status is one step of waiting_for_images ->
\* pending -> processing -> completed, or waiting_for_images -> failed, or
\* pending -> failed; nothing leaves completed or failed.
C2_StatusChain ==
    [][\A i \in 1..Len(queue) : \A j \in 1..Len(queue') :
          (queue[i].id = queue'[j].id /\ queue[i].status # queue'[j].status)
              => <<queue[i].status, queue'[j].status>> \in C2_AllowedChanges]_vars

C3_Minimum(gifType) ==
    CASE gifType = "hourly" -> 5
      [] gifType = "sunrise" -> 3
      [] gifType = "sunset" -> 3
      [] gifType = "full_day" -> 10
      [] gifType = "on_demand" -> 3

C3_Desampled(e) ==
    LET imageKeys == getImagesForTimeRange(getWebcamById(e.webcam_id), e.start_time, e.end_time)
    IN desampleImageKeys(imageKeys, totalImagesFor(e.gif_type, Len(imageKeys)))

C6_FrameCap(gifType) ==
    CASE gifType = "full_day" -> FrameRate * FullDaySeconds
      [] gifType = "hourly" -> FrameRate * HourlySeconds
      [] gifType = "sunrise" -> FrameRate * SunSeconds
      [] gifType = "sunset" -> FrameRate * SunSeconds

\* C6: a job that prepareAnimationsForPendingQueue moved to 'pending' holds
\* at most the frame cap of its type (150 full_day, 60 hourly, 120 sunrise and
\* sunset) and at most as many keys as there are images in its window.
C6_FrameCaps ==
    \A i \in 1..Len(queue) :
        queue[i].status = "pending" =>
            /\ Len(queue[i].image_list) <= C6_FrameCap(queue[i].gif_type)
            /\ Len(queue[i].image_list) <=
                   Len(getImagesForTimeRange(getWebcamById(queue[i].webcam_id),
                                             queue[i].start_time, queue[i].end_time))

\* C7: a pass of prepareAnimationsForPendingQueue at time now leaves every
\* entry that is not 'waiting_for_images' with scheduled_time <= now exactly
\* as it was (status, image list, error message, processed_at), and adds or
\* removes none.
C7_PrepareFrame ==
    [][lastOp'.op = "prepareAnimationsForPendingQueue" =>
          /\ Len(queue') = Len(queue)
          /\ \A i \in 1..Len(queue) :
                /\ queue'[i].id = queue[i].id
                /\ ~IsCandidate(queue[i]) =>
                      /\ queue'[i].status = queue[i].status
                      /\ queue'[i].image_list = queue[i].image_list
                      /\ queue'[i].error_message = queue[i].error_message
                      /\ queue'[i].processed_at = queue[i].processed_at]_vars

\* C7 witness: after a pass one entry has left 'waiting_for_images' while
\* another, due later than now, is still waiting, and a completed one is intact.
C7_Witness ==
    /\ lastOp.op = "prepareAnimationsForPendingQueue"
    /\ \E i, j \in 1..Len(queue) :
          /\ queue[i].status = "pending" /\ queue[i].scheduled_time <= now
          /\ queue[j].status = "waiting_for_images" /\ queue[j].scheduled_time > now
          /\ queue[j].image_list = <<>> /\ queue[j].processed_at = NoTime

\* C8: createTodaysAnimations with a dateString that is not of the form
\* YYYY-MM-DD throws 'invalid date must be (YYYY-MM-DD)' and adds nothing.
C8_InvalidDateRejected ==
    [][(/\ lastOp'.op = "createTodaysAnimations"
        /\ lastOp'.dateString # <<"2", "0", "2", "5", "-", "0", "9", "-", "2", "4">>)
          => /\ lastOp'.threw
             /\ lastOp'.message = <<"invalid date must be (YYYY-MM-DD)">>
             /\ queue' = queue]_vars

\* C8 witness: a call with '2025/09/24' threw on a queue that already held
\* entries.
C8_Witness ==
    /\ lastOp.op = "createTodaysAnimations"
    /\ lastOp.dateString = <<"2", "0", "2", "5", "/", "0", "9", "/", "2", "4">>
    /\ lastOp.threw
    /\ Len(queue) > 0

C9_Unlocated ==
    { webcams[k].id : k \in { n \in 1..Len(webcams) :
          webcams[n].enabled /\ (webcams[n].latLon = "null" \/ webcams[n].timezone = "null") } }

\* C9: a run of createTodaysAnimations on a valid date adds no entry for an
\* enabled webcam without latLon or without timezone, does not throw, and
\* still adds the entries of the webcam listed between them.
C9_SkipUnlocated ==
    [][(lastOp'.op = "createTodaysAnimations"
        /\ lastOp'.dateString = <<"2", "0", "2", "5", "-", "0", "9", "-", "2", "4">>)
          => /\ ~lastOp'.threw
             /\ \A j \in 1..Len(queue') : queue'[j].webcam_id \notin C9_Unlocated
             /\ \E j \in (Len(queue) + 1)..Len(queue') : queue'[j].webcam_id = 1]_vars

\* C9 witness: a run that did not throw, with webcams 2 (no latLon) and 3 (no
\* timezone) enabled, left entries for webcam 1 only.
C9_Witness ==
    /\ lastOp.op = "createTodaysAnimations" /\ ~lastOp.threw
    /\ C9_Unlocated = {2, 3}
    /\ Len(queue) > 0
    /\ \A j \in 1..Len(queue) : queue[j].webcam_id = 1

C10_Numerals == <<"0", "1", "2", "3", "4", "5", "6", "7", "8", "9">>

C10_TwoDigits(n) == <<C10_Numerals[(n \div 10) + 1], C10_Numerals[(n % 10) + 1]>>

C10_LocalMs(e) ==
    e.start_time * 1000
        + (IF getWebcamById(e.webcam_id).timezone = "America/Denver" THEN -6
           ELSE IF getWebcamById(e.webcam_id).timezone = "Asia/Tokyo" THEN 9 ELSE 0) * 3600000

C11_DateKeyIsDateString ==
    [][(lastOp'.op = "createTodaysAnimations" /\ ~lastOp'.threw)
          => \A j \in (Len(queue) + 1)..Len(queue') :
                 queue'[j].date_key = lastOp'.dateString]_vars


C12_Added(gifType) ==
    { j \in (Len(queue) + 1)..Len(queue') : queue'[j].gif_type = gifType }

\* C12: in a run for a webcam whose lightStart and lightEnd are not NaN (its
\* full_day window), the hourly entries added are exactly one for every clock
\* hour [h, h + 1h] inside [lightStart, lightEnd]: each starts on an hour
\* boundary, lasts one hour, none is emitted twice, and each is scheduled five
\* minutes after its end.
C12_HourlyWindows ==
    [][(lastOp'.op = "createTodaysAnimations" /\ ~lastOp'.threw)
          => \A f \in C12_Added("full_day") :
                LET lightStart == queue'[f].start_time
                    lightEnd == queue'[f].end_time
                    contained == { h \in lightStart..lightEnd :
                                       h % 3600 = 0 /\ h + 3600 <= lightEnd }
                IN /\ { queue'[j].start_time : j \in C12_Added("hourly") } = contained
                   /\ Cardinality(C12_Added("hourly")) = Cardinality(contained)
                   /\ \A j \in C12_Added("hourly") :
                         /\ queue'[j].end_time = queue'[j].start_time + 3600
                         /\ queue'[j].scheduled_time = queue'[j].end_time * 1000 + 300000]_vars


C13_Located ==
    { k \in 1..Len(webcams) :
          /\ webcams[k].enabled
          /\ webcams[k].latLon # "null" /\ webcams[k].timezone # "null"
          /\ parseableLatLon(webcams[k].latLon) }

C15_ImageListByStatus ==
    \A i \in 1..Len(queue) :
        /\ queue[i].status = "waiting_for_images" => queue[i].image_list = <<>>
        /\ queue[i].status = "pending" =>
               Len(queue[i].image_list) >=
                   (CASE queue[i].gif_type = "hourly" -> 5
                      [] queue[i].gif_type = "full_day" -> 10
                      [] OTHER -> 3)

\* C15 witness: a full_day job is pending with exactly ten keys while a job
\* of a later scheduling run is still waiting, with no image.
C15_Witness ==
    \E i, j \in 1..Len(queue) :
        /\ queue[i].status = "pending" /\ queue[i].gif_type = "full_day"
        /\ Len(queue[i].image_list) = 10
        /\ queue[j].status = "waiting_for_images" /\ queue[j].id > queue[i].id
        /\ queue[j].image_list = <<>>


C16_Timestamp(key) == IF key[5] = "" THEN -1 ELSE key[4]

\* C16: desampleImageKeys(source, n) returns at most n keys, all of them keys
\* of source, none twice, in ascending order of their timestamps; and the
\* empty list when source is empty or n <= 0.
C16_DesampleShape ==
    lastDesample.called =>
        LET source == lastDesample.sourceImages
            n == lastDesample.totalImages
            result == lastDesample.result
        IN IF Len(source) = 0 \/ n <= 0
           THEN result = <<>>
           ELSE /\ Len(result) <= n
                /\ \A i \in 1..Len(result) : \E j \in 1..Len(source) : source[j] = result[i]
                /\ \A i, j \in 1..Len(result) : result[i] = result[j] => i = j
                /\ \A i, j \in 1..Len(result) :
                       i < j => C16_Timestamp(result[i]) <= C16_Timestamp(result[j])

C17_Parseable(source) == SelectSeq(source, LAMBDA key : key[5] # "")

\* C17: when at most n keys of source have a parseable timestamp,
\* desampleImageKeys(source, n) returns exactly those keys, sorted by ascending
\* timestamp, and drops every key without one.
C17_FewParseable ==
    (lastDesample.called /\ lastDesample.totalImages > 0
        /\ Len(C17_Parseable(lastDesample.sourceImages)) <= lastDesample.totalImages)
    => LET parseable == C17_Parseable(lastDesample.sourceImages)
           result == lastDesample.result
       IN /\ Len(result) = Len(parseable)
          /\ \A k \in DesampleKeys :
                 Cardinality({i \in 1..Len(result) : result[i] = k})
                     = Cardinality({i \in 1..Len(parseable) : parseable[i] = k})
          /\ \A i, j \in 1..Len(result) : i < j => result[i][4] <= result[j][4]

\* C18: when more than n keys of source have a parseable timestamp and these
\* are not all equal, the result begins with a key of the earliest timestamp
\* and, for n >= 2, ends with a key of the latest, in whatever order source
\* is; for n = 1 it is the earliest key alone, for n = 2 [earliest, latest].
C18_FirstAndLast ==
    LET parseable == C17_Parseable(lastDesample.sourceImages)
        stamps == { parseable[i][4] : i \in 1..Len(parseable) }
        n == lastDesample.totalImages
        result == lastDesample.result
    IN (lastDesample.called /\ n >= 1 /\ Len(parseable) > n /\ Cardinality(stamps) > 1)
       => /\ Len(result) >= 1
          /\ \A t \in stamps : result[1][4] <= t
          /\ n = 1 => Len(result) = 1
          /\ n >= 2 => \A t \in stamps : result[Len(result)][4] >= t
          /\ n = 2 => Len(result) = 2

\* C18 witness: three frames wanted from five keys given latest first, one of
\* them without timestamp: the result runs from the 10 s to the 40 s image.
C18_Witness ==
    /\ lastDesample.called /\ lastDesample.totalImages = 3
    /\ Len(lastDesample.sourceImages) = 5
    /\ lastDesample.sourceImages[1][4] = 40
    /\ \E i \in 1..5 : lastDesample.sourceImages[i][5] = ""
    /\ Len(lastDesample.result) = 3
    /\ lastDesample.result[1][4] = 10 /\ lastDesample.result[3][4] = 40


C19_Window(policy) ==
    CASE policy = "Sunrise" -> <<394320 - 5 * 60, 394320 + 15 * 60>>
      [] policy = "SolarNoon" -> <<398160 - 15 * 60, 398160 + 15 * 60>>
      [] policy = "Sunset" -> <<399120 - 15 * 60, 399120 + 5 * 60>>

C19_Target(policy) ==
    CASE policy = "Sunrise" -> 394320
      [] policy = "SolarNoon" -> 398160
      [] policy = "Sunset" -> 399120

C19_InWindow(policy) ==
    { k \in 1..Len(retention.rows) :
          /\ retention.rows[k].webcamId = 1
          /\ retention.rows[k].timeStamp >= C19_Window(policy)[1]
          /\ retention.rows[k].timeStamp <= C19_Window(policy)[2] }

\* C19: after a policy (Sunrise, SolarNoon or Sunset) was applied over a range
\* that covers 2025-09-24, if its search window of that day holds an image of
\* webcam 1, exactly one image of the window carries the policy's tag, and it
\* is the image closest to the target instant (the first of equally close ones).
C19_OneTagPerWindow ==
    (retention.policy \in {"Sunrise", "SolarNoon", "Sunset"}
        /\ retention.failing = {}
        /\ C19_InWindow(retention.policy) # {})
    => LET policy == retention.policy
           rows == retention.rows
           tagged == { k \in C19_InWindow(policy) : policy \in rows[k].retentionPolicy }
           distance(k) == IF rows[k].timeStamp >= C19_Target(policy)
                          THEN rows[k].timeStamp - C19_Target(policy)
                          ELSE C19_Target(policy) - rows[k].timeStamp
       IN /\ Cardinality(tagged) = 1
          /\ \A k \in tagged : \A j \in C19_InWindow(policy) :
                 distance(k) < distance(j) \/ (distance(k) = distance(j) /\ k <= j)

C21_OnlyDaysOfRange ==
    [][retention'.applies = retention.applies + 1
          => \A k \in 1..Len(retention.rows) :
                (retention.rows[k].timeStamp < retention'.range[1]
                    \/ retention.rows[k].timeStamp > retention'.range[2])
                => retention'.rows[k] = retention.rows[k]]_vars

\* C22: when putImage fails for some images during an application, the
\* application still makes every putImage call of the fault-free application,
\* and every image whose putImage does not fail ends as in the fault-free
\* application (the images whose putImage fails stay as they were).
C22_FailedPutIsolated ==
    [][retention'.applies = retention.applies + 1
          => LET faultFree == applyWebcams(retention'.policy, <<retention.rows, 0>>,
                                           getAllWebcams, retention'.range[1],
                                           retention'.range[2], {})
             IN /\ retention'.puts = faultFree[2]
                /\ \A k \in 1..Len(retention.rows) :
                      retention'.rows[k] = IF retention.rows[k].id \in retention'.failing
                                           THEN retention.rows[k]
                                           ELSE faultFree[1][k]]_vars

\* C22 witness: Sunrise was applied with putImage failing for the selected
\* image of webcam 1 (13:31:00 of the 24th): that image has no tag, the image
\* of webcam 6 and the image of the next day were tagged all the same.
C22_Witness ==
    /\ retention.policy = "Sunrise" /\ retention.failing = {2} /\ retention.puts = 3
    /\ \E i, j, k \in 1..Len(retention.rows) :
          /\ retention.rows[i].id = 2 /\ "Sunrise" \notin retention.rows[i].retentionPolicy
          /\ retention.rows[j].id = 7 /\ "Sunrise" \in retention.rows[j].retentionPolicy
          /\ retention.rows[k].id = 8 /\ "Sunrise" \in retention.rows[k].retentionPolicy

\* the sunrise search windows of 2025-09-24 and 2025-09-25
C23_InSunriseWindow(timeStamp) ==
    \E day \in {0, 24 * 60 * 60} :
        /\ timeStamp >= C19_Window("Sunrise")[1] + day
        /\ timeStamp <= C19_Window("Sunrise")[2] + day

C24_CapturesIsolated ==
    capture.returned
    => \/ capture.pc = <<>>
       \/ /\ {capture.pc[k].webcamId : k \in 1..Len(capture.pc)}
                = {webcams[j].id : j \in {i \in 1..Len(webcams) : webcams[i].enabled}}
          /\ \A k \in 1..Len(capture.pc) : capture.pc[k].at \in {"fulfilled", "rejected"}

\* C24 witness: processAllWebcams has returned; the task of one webcam was
\* rejected, another caught a fetch error, a third stored its image.
C24_Witness ==
    /\ capture.returned
    /\ \E i, j, k \in 1..Len(capture.pc) :
          /\ capture.pc[i].at = "rejected"
          /\ capture.pc[j].at = "fulfilled" /\ ~capture.pc[j].saved /\ j # i
          /\ capture.pc[k].at = "fulfilled" /\ capture.pc[k].saved

C25_Pending == { i \in 1..Len(queue) : queue[i].status = "pending" }

C26_EveryTickCapturesAndAdvances ==
    tick.at # NoTime => tick.capture /\ tick.queue

\* C27: with overlapping runs and completions in between, no step moves an
\* entry backwards: an entry that is 'completed' or 'failed' is not changed
\* any more, and an entry that is 'pending' keeps its image list and stays
\* 'pending' until it is completed.
C27_NoBackwardStatus ==
    [][\A i \in 1..Len(queue) :
          /\ queue[i].status \in {"completed", "failed"} => queue'[i] = queue[i]
          /\ queue[i].status = "pending"
                => /\ queue'[i].status \in {"pending", "completed"}
                   /\ queue'[i].image_list = queue[i].image_list]_vars

\* C28: the two calls of markAnimationCompleted do not both answer success
\* for the same entry.
C28_OneSuccessPerEntry ==
    ~ /\ calls[1].pc = "done" /\ calls[1].success
      /\ calls[2].pc = "done" /\ calls[2].success
      /\ calls[1].id = calls[2].id

\* C30: in every state each queue entry has a processed_at exactly when its
\* status is 'completed' or 'failed'.
C30_ProcessedAtIffFinished ==
    \A i \in 1..Len(queue) :
        queue[i].processed_at # NoTime <=> queue[i].status \in {"completed", "failed"}

\* C30 witness: one entry is completed, one failed, both with processed_at;
\* one is pending and one still waiting, both without.
C30_Witness ==
    \E i, j, k, l \in 1..Len(queue) :
        /\ queue[i].status = "completed" /\ queue[i].processed_at # NoTime
        /\ queue[j].status = "failed" /\ queue[j].processed_at # NoTime
        /\ queue[k].status = "pending" /\ queue[k].processed_at = NoTime
        /\ queue[l].status = "waiting_for_images" /\ queue[l].processed_at = NoTime

\* C29: an entry that is waiting for images and due is eventually 'pending' or
\* 'failed', whatever else is in the queue and although writes fail now and
\* then.
C29_DueEntriesAdvance ==
    \A id \in 1..Len(scheduledQueue) :
        (HasEntry(queue, id) /\ IsDue(EntryOf(queue, id)))
            ~> (HasEntry(queue, id) /\ EntryOf(queue, id).status \in {"pending", "failed"})

\* C29 witness: a write failed in an earlier run; a later run has ended, an
\* entry that was due is 'pending' and no entry that is due is left waiting.
C29_Witness ==
    /\ runs[1].pc = "done"
    /\ faults = 1
    /\ \E i \in 1..Len(queue) :
          /\ queue[i].status = "pending"
          /\ queue[i].scheduled_time <= now
    /\ \A i \in 1..Len(queue) : ~IsDue(queue[i])

====
